---------------------------- MODULE Spec2Model ----------------------------
(***************************************************************************)
(* Model of the portfolio manifest builders.                               *)
(*                                                                         *)
(*   build  = src/unnamed/part_000        (filesystem pipeline,            *)
(*            buildProjectsJson and its helpers)                           *)
(*   export = src/tools/export-projects.js (database pipeline,             *)
(*            exportProjectsToJson)                                        *)
(*                                                                         *)
(* Spec      runs one of the two tools (chosen in Init) step by step.      *)
(* SpecTech  applies the two technology-string parsers to bounded strings. *)
(* SpecVideo applies scanProjectVideos to bounded directory listings.      *)
(***************************************************************************)
EXTENDS Integers, Sequences, FiniteSets, TLC

VARIABLES
    tool,        \* which script runs: "build", "export", "tech", "video"
    \* ---- filesystem pipeline (part_000)
    rootKind,    \* public/projects: "dir", "missing", "notdir"
    folders,     \* readdirSync(projectsDir): the entries in enumeration order
    pc,          \* position inside buildProjectsJson
    idx,         \* forEach position in projectFolders (1-based)
    projects,    \* const projects = []
    projectId,   \* let projectId = 1
    fsErr,       \* which failure the run logged at top level ("none" if none)
    \* ---- output file of either tool
    manifest,    \* content of projects.json
    written,     \* writeFileSync(projects.json) completed in this run
    exitCode,    \* process exit status (read once the process has exited)
    \* ---- database pipeline (export-projects.js)
    db,          \* the SQLite store projects.db
    db0,         \* the store as it was before the first run
    dbpc,        \* position inside exportProjectsToJson
    tableExists, \* const tableExists
    rowsRead,    \* const projects = db.prepare(...).all()
    swallowed,   \* an exception was raised and swallowed by the inner catch
    thrown,      \* an exception reached the outer catch in this run
    closed,      \* db.close() returned in this run
    inserted,    \* project rows inserted by this run
    runs,        \* completed runs of the export tool
    failedRuns,  \* completed runs that exited nonzero
    \* ---- technology string parsing
    techString,  \* input string (sequence of characters) or Null
    techFs,      \* result of processTechString
    techDb,      \* result of the export tool's tech mapping
    techpc,      \* which of the two parsers have run
    \* ---- video scan
    dirFiles,    \* readdirSync(projectPath) in enumeration order
    dirReadable, \* whether readdirSync(projectPath) succeeds
    videos,      \* result of scanProjectVideos
    vpc          \* position of the video scan

fsVars == <<rootKind, folders, pc, idx, projects, projectId, fsErr>>
outVars == <<manifest, written, exitCode>>
dbVars == <<db, db0, dbpc, tableExists, rowsRead, swallowed, thrown, closed,
            inserted, runs, failedRuns>>
techVars == <<techString, techFs, techDb, techpc>>
videoVars == <<dirFiles, dirReadable, videos, vpc>>
vars == <<tool, fsVars, outVars, dbVars, techVars, videoVars>>

\* ---------------------------------------------------------------- bounds
MaxDirs == 3

\* ------------------------------------------------------------ sequences
SeqsUpTo(S, n) == UNION {[1..k -> S] : k \in 0..n}

Range(s) == {s[i] : i \in 1..Len(s)}

\* =========================================================================
\*                       FILESYSTEM PIPELINE (part_000)
\* =========================================================================

(***************************************************************************)
(* end_date values of a sidecar.  A date text "YYYY-MM" is the pair        *)
(* <<YYYY, MM>>; the empty string (or an absent key: `|| ''`) is <<>>.     *)
(* No validation is done by the code, so month 13 can occur.               *)
(***************************************************************************)
NoDate == <<>>

EndDates == {NoDate, <<2023, 6>>, <<2024, 1>>, <<2024, 13>>}

\* JS numbers that matter here: an integer or NaN.
Num(n) == [nan |-> FALSE, n |-> n]
NaN == [nan |-> TRUE, n |-> 0]

\* new Date("YYYY-MM"): the ISO year-month form; months outside 01..12 give
\* an Invalid Date, whose time value is NaN.  Time is counted in months.
NewDate(s) == IF s[2] \in 1..12 THEN Num(s[1] * 12 + (s[2] - 1)) ELSE NaN

\* Date - Date: NaN if either operand is an Invalid Date.
DateMinus(x, y) == IF x.nan \/ y.nan THEN NaN ELSE Num(x.n - y.n)

\* The comparator handed to projects.sort.
CompareFn(a, b) ==
    IF a.end_date = NoDate /\ b.end_date = NoDate THEN Num(0)
    ELSE IF a.end_date = NoDate THEN Num(1)
    ELSE IF b.end_date = NoDate THEN Num(0 - 1)
    ELSE DateMinus(NewDate(b.end_date), NewDate(a.end_date))

\* Array.prototype.sort calls the comparator and reads NaN as +0.
CallCompare(a, b) == LET v == CompareFn(a, b) IN IF v.nan THEN 0 ELSE v.n

(***************************************************************************)
(* Array.prototype.sort as the runtime performs it on a short array: the   *)
(* leading run is found (and reversed if strictly descending), the rest is *)
(* inserted by binary insertion.  Indices below are 0-based as in the      *)
(* runtime; arr[i + 1] is element i.                                       *)
(***************************************************************************)
RECURSIVE RunEnd(_, _, _)
RunEnd(arr, i, desc) ==
    IF i >= Len(arr) THEN Len(arr)
    ELSE LET order == CallCompare(arr[i + 1], arr[i])
         IN IF (desc /\ order >= 0) \/ (~desc /\ order < 0)
            THEN i
            ELSE RunEnd(arr, i + 1, desc)

ReverseRange(arr, n) ==
    [i \in 1..Len(arr) |-> IF i <= n THEN arr[n + 1 - i] ELSE arr[i]]

RECURSIVE BinarySearch(_, _, _, _)
BinarySearch(arr, pivot, left, right) ==
    IF left >= right THEN left
    ELSE LET mid == left + ((right - left) \div 2)
         IN IF CallCompare(pivot, arr[mid + 1]) < 0
            THEN BinarySearch(arr, pivot, left, mid)
            ELSE BinarySearch(arr, pivot, mid + 1, right)

InsertAt(arr, start, left) ==
    [i \in 1..Len(arr) |->
        IF i <= left THEN arr[i]
        ELSE IF i = left + 1 THEN arr[start + 1]
        ELSE IF i <= start + 1 THEN arr[i - 1]
        ELSE arr[i]]

RECURSIVE BinaryInsertionSort(_, _)
BinaryInsertionSort(arr, start) ==
    IF start >= Len(arr) THEN arr
    ELSE BinaryInsertionSort(
             InsertAt(arr, start, BinarySearch(arr, arr[start + 1], 0, start)),
             start + 1)

ArraySort(arr) ==
    IF Len(arr) < 2 THEN arr
    ELSE LET desc == CallCompare(arr[2], arr[1]) < 0
             run == RunEnd(arr, 2, desc)
             made == IF desc THEN ReverseRange(arr, run) ELSE arr
         IN BinaryInsertionSort(made, run)

(***************************************************************************)
(* A directory entry of public/projects.                                   *)
(*   kind     "file"  statSync: not a directory                            *)
(*            "dir"   statSync: a directory                                *)
(*            "gone"  statSync throws (dangling link, entry removed)       *)
(*   sidecar  "ok" | "missing" | "malformed"   (project.yml)               *)
(*   end_date the sidecar's end_date                                       *)
(*   listable readdirSync(projectPath) succeeds for the asset scans        *)
(***************************************************************************)
PlainEntry(k) == [kind |-> k, sidecar |-> "missing", end_date |-> NoDate, listable |-> TRUE]

Entries ==
    {PlainEntry("file"), PlainEntry("gone"), PlainEntry("dir")}
    \cup {[kind |-> "dir", sidecar |-> "malformed", end_date |-> NoDate, listable |-> TRUE]}
    \cup [kind : {"dir"}, sidecar : {"ok"}, end_date : EndDates, listable : BOOLEAN]

\* What projects.json holds before the run: the output of an earlier build.
OldManifest == <<[id |-> 1, title |-> 0, end_date |-> NoDate, images |-> 0]>>

\* readProjectYaml for entry number i: the parsed mapping, or null (ok = FALSE)
\* after logging the error.  The sidecar of entry i carries the title i.
ReadProjectYamlWrong(e, i) == [ok |-> TRUE, title |-> i, end_date |-> e.end_date]
ReadProjectYaml(e, i) ==
    IF e.sidecar = "ok"
    THEN [ok |-> TRUE, title |-> i, end_date |-> e.end_date]
    ELSE [ok |-> FALSE]

\* scanProjectImages: the images found, [] if the listing throws.
\* Every project folder of the model holds one image file.
ScanProjectImages(e) == IF e.listable THEN 1 ELSE 0

\* The id given to the next record.
NextIdWrong(i, id) == i
NextId(i, id) == id

\* The project object built from the parsed sidecar of entry number i.
BuildProject(e, data, i, id) ==
    [id |-> NextId(i, id), title |-> data.title, end_date |-> data.end_date,
     images |-> ScanProjectImages(e)]

\* Where control goes when statSync throws inside the forEach callback for
\* entry number i: out of the forEach, into the catch of buildProjectsJson.
StatThrowsWrong(i) == [pc |-> "loop", err |-> "stat", idx |-> i + 1]
StatThrows(i) == [pc |-> "done", err |-> "stat", idx |-> i]

FsIdle ==
    /\ rootKind = "dir" /\ folders = <<>> /\ pc = "idle" /\ idx = 1
    /\ projects = <<>> /\ projectId = 1 /\ fsErr = "none"

FsInit ==
    /\ rootKind \in {"dir", "missing", "notdir"}
    /\ folders \in SeqsUpTo(Entries, MaxDirs)
    /\ rootKind # "dir" => folders = <<>>
    /\ pc = "start" /\ idx = 1
    /\ projects = <<>> /\ projectId = 1 /\ fsErr = "none"

\* if (!fs.existsSync(projectsDir)) { log; return; }
CheckRoot ==
    /\ tool = "build" /\ pc = "start"
    /\ IF rootKind = "missing"
       THEN pc' = "done" /\ fsErr' = "noroot"
       ELSE pc' = "list" /\ fsErr' = fsErr
    /\ UNCHANGED <<rootKind, folders, idx, projects, projectId>>
    /\ UNCHANGED <<tool, outVars, dbVars, techVars, videoVars>>

\* const projectFolders = fs.readdirSync(projectsDir);   (throws on a non-directory)
ListRoot ==
    /\ tool = "build" /\ pc = "list"
    /\ IF rootKind = "notdir"
       THEN pc' = "done" /\ fsErr' = "readdir"
       ELSE pc' = "loop" /\ fsErr' = fsErr
    /\ UNCHANGED <<rootKind, folders, idx, projects, projectId>>
    /\ UNCHANGED <<tool, outVars, dbVars, techVars, videoVars>>

\* One call of the forEach callback.
ProcessFolder ==
    /\ tool = "build" /\ pc = "loop" /\ idx <= Len(folders)
    /\ LET e == folders[idx]
           data == ReadProjectYaml(e, idx)
       IN IF e.kind = "gone"
          THEN /\ pc' = StatThrows(idx).pc /\ fsErr' = StatThrows(idx).err
               /\ idx' = StatThrows(idx).idx
               /\ UNCHANGED <<projects, projectId>>
          ELSE /\ idx' = idx + 1
               /\ UNCHANGED <<pc, fsErr>>
               /\ IF e.kind = "dir" /\ data.ok
                  THEN /\ projects' = Append(projects, BuildProject(e, data, idx, projectId))
                       /\ projectId' = projectId + 1
                  ELSE UNCHANGED <<projects, projectId>>
    /\ UNCHANGED <<rootKind, folders>>
    /\ UNCHANGED <<tool, outVars, dbVars, techVars, videoVars>>

\* projects.sort(...); fs.writeFileSync(outputPath, ...), which may throw
\* before anything is written (the file cannot be opened).
SortAndWrite ==
    /\ tool = "build" /\ pc = "loop" /\ idx > Len(folders)
    /\ projects' = ArraySort(projects)
    /\ \E ok \in BOOLEAN :
          IF ok
          THEN manifest' = projects' /\ written' = TRUE /\ fsErr' = fsErr
          ELSE manifest' = manifest /\ written' = written /\ fsErr' = "write"
    /\ pc' = "done"
    /\ UNCHANGED <<rootKind, folders, idx, projectId, exitCode>>
    /\ UNCHANGED <<tool, dbVars, techVars, videoVars>>

\* buildProjectsJson returned; the script ends and the process exits 0.
BuildExit ==
    /\ tool = "build" /\ pc = "done"
    /\ pc' = "exited" /\ exitCode' = 0
    /\ UNCHANGED <<rootKind, folders, idx, projects, projectId, fsErr, manifest, written>>
    /\ UNCHANGED <<tool, dbVars, techVars, videoVars>>


\* =========================================================================
\*                  DATABASE PIPELINE (export-projects.js)
\* =========================================================================
MaxRows == 2
MaxRuns == 2

(***************************************************************************)
(* Column values.  A DATE text 'YYYY-MM-DD' is <<Y, M, D>>, a DATETIME     *)
(* text 'YYYY-MM-DD HH:MM:SS' is <<Y, M, D, h, m, s>>: both are fixed      *)
(* width and zero padded, so SQLite's text comparison is the lexicographic *)
(* comparison of the fields, a proper prefix sorting first.  SQL NULL is   *)
(* <<>>.                                                                   *)
(***************************************************************************)
SqlNull == <<>>

RECURSIVE TextLess(_, _)
TextLess(a, b) ==
    IF b = <<>> THEN FALSE
    ELSE IF a = <<>> THEN TRUE
    ELSE IF Head(a) # Head(b) THEN Head(a) < Head(b)
    ELSE TextLess(Tail(a), Tail(b))

\* CURRENT_TIMESTAMP of the run that creates the sample rows.
Now == <<2025, 8, 24, 10, 0, 0>>

StoredEndDates == {SqlNull, <<2024, 6, 30>>, <<2025, 1, 1>>}
StoredCreatedAt == {<<2024, 6, 30, 12, 0, 0>>, <<2024, 12, 1, 9, 0, 0>>}

\* initialTechnologies: the names of the fixed list.
InitialTechnologies ==
    {"bash", "c#", "c++", "c", "dart", "go", "haskell", "java", "javascript",
     "kotlin", "php", "python", "ruby", "rust", "typescript"}

\* initialProjects: the end_date of each sample row, in insertion order.
InitialProjects == << <<2024, 6, 30>>, <<2024, 8, 15>>, <<2024, 8, 24>> >>

\* Rows as `INSERT` stores them: AUTOINCREMENT id, created_at defaulted.
AddRows(rows, k) ==
    rows \o [i \in 1..k |->
                [id |-> Len(rows) + i, end_date |-> InitialProjects[i], created_at |-> Now]]

\* The store: projects table (present or not, its schema, its rows) and
\* technologies table (present or not, the names in it).
EmptyStore ==
    [hasProjects |-> FALSE, schema |-> "new", rows |-> <<>>,
     hasTech |-> FALSE, techs |-> {}]

StoredRows ==
    {r \in SeqsUpTo([id : 1..MaxRows, end_date : StoredEndDates, created_at : StoredCreatedAt],
                    MaxRows) : \A i \in 1..Len(r) : r[i].id = i}

Stores ==
    {EmptyStore}
    \cup {[EmptyStore EXCEPT !.hasTech = TRUE, !.techs = t] : t \in {{}, {"react"}}}
    \cup [hasProjects : {TRUE}, schema : {"new", "legacy"}, rows : StoredRows,
          hasTech : {TRUE}, techs : {{}, {"react"}}]
    \cup [hasProjects : {TRUE}, schema : {"new", "legacy"}, rows : StoredRows,
          hasTech : {FALSE}, techs : {{}}]

\* ORDER BY CASE WHEN end_date IS NOT NULL THEN end_date ELSE created_at END DESC
OrderKeyWrong(r) == r.created_at
OrderKey(r) == IF r.end_date # SqlNull THEN r.end_date ELSE r.created_at

\* Row a must come before row b:  key DESC, then created_at DESC.
SortsBefore(a, b) ==
    \/ TextLess(OrderKey(b), OrderKey(a))
    \/ OrderKey(a) = OrderKey(b) /\ TextLess(b.created_at, a.created_at)

Bijections(n) == {f \in [1..n -> 1..n] : \A i, j \in 1..n : f[i] = f[j] => i = j}

\* SELECT * FROM projects ORDER BY ...: every order of the rows that the
\* ORDER BY admits (rows equal in both sort terms come in any order).
SelectProjects(rows) ==
    {[i \in 1..Len(rows) |-> rows[f[i]]] : f \in
        {g \in Bijections(Len(rows)) :
            \A i, j \in 1..Len(rows) : i < j => ~SortsBefore(rows[g[j]], rows[g[i]])}}

\* if (!tableExists) { ... }: whether the bootstrap block is entered.
NeedsBootstrapWrong(exists) == TRUE
NeedsBootstrap(exists) == ~exists

\* catch (error) { console.error(...); process.exit(1); }
CatchExitCodeWrong == 1 - 1
CatchExitCode == 1

DbIdle ==
    /\ db = EmptyStore /\ db0 = EmptyStore /\ dbpc = "idle" /\ tableExists = FALSE
    /\ rowsRead = <<>> /\ swallowed = FALSE /\ thrown = FALSE /\ closed = FALSE
    /\ inserted = 0 /\ runs = 0 /\ failedRuns = 0

DbInit ==
    /\ db \in Stores /\ db0 = db /\ dbpc = "open" /\ tableExists = FALSE
    /\ rowsRead = <<>> /\ swallowed = FALSE /\ thrown = FALSE /\ closed = FALSE
    /\ inserted = 0 /\ runs = 0 /\ failedRuns = 0

\* A step of the run that leaves only the position (and the flags given).
DbGoto(next) ==
    /\ dbpc' = next
    /\ thrown' = (thrown \/ next = "catch")

\* const db = new Database(...): opens the file, creating an empty one if absent.
DbOpen ==
    /\ tool = "export" /\ dbpc = "open"
    /\ \E ok \in BOOLEAN : DbGoto(IF ok THEN "check" ELSE "catch")
    /\ UNCHANGED <<db, db0, tableExists, rowsRead, swallowed, closed, inserted, runs, failedRuns>>
    /\ UNCHANGED <<tool, fsVars, outVars, techVars, videoVars>>

\* const tableExists = db.prepare(SELECT name FROM sqlite_master ...).get();
DbCheckTable ==
    /\ tool = "export" /\ dbpc = "check"
    /\ \E ok \in BOOLEAN :
          IF ok
          THEN /\ tableExists' = db.hasProjects
               /\ DbGoto(IF NeedsBootstrap(db.hasProjects) THEN "create" ELSE "read")
          ELSE /\ tableExists' = tableExists
               /\ DbGoto("catch")
    /\ UNCHANGED <<db, db0, rowsRead, swallowed, closed, inserted, runs, failedRuns>>
    /\ UNCHANGED <<tool, fsVars, outVars, techVars, videoVars>>

\* CREATE TABLE IF NOT EXISTS projects (... description TEXT, image TEXT, tech TEXT ...)
DbCreateProjects ==
    /\ tool = "export" /\ dbpc = "create"
    /\ \E ok \in BOOLEAN :
          IF ok
          THEN /\ db' = IF db.hasProjects THEN db
                        ELSE [db EXCEPT !.hasProjects = TRUE, !.schema = "new", !.rows = <<>>]
               /\ DbGoto("createTech")
          ELSE /\ db' = db
               /\ DbGoto("catch")
    /\ UNCHANGED <<db0, tableExists, rowsRead, swallowed, closed, inserted, runs, failedRuns>>
    /\ UNCHANGED <<tool, fsVars, outVars, techVars, videoVars>>

\* CREATE TABLE IF NOT EXISTS technologies (...)
DbCreateTechnologies ==
    /\ tool = "export" /\ dbpc = "createTech"
    /\ \E ok \in BOOLEAN :
          IF ok
          THEN /\ db' = IF db.hasTech THEN db ELSE [db EXCEPT !.hasTech = TRUE, !.techs = {}]
               /\ DbGoto("migrate")
          ELSE /\ db' = db
               /\ DbGoto("catch")
    /\ UNCHANGED <<db0, tableExists, rowsRead, swallowed, closed, inserted, runs, failedRuns>>
    /\ UNCHANGED <<tool, fsVars, outVars, techVars, videoVars>>

\* try { PRAGMA table_info(projects); if (hasOldSchema) { copy into a table
\* with the nullable schema, drop, rename } } catch (error) { log }
DbMigrate ==
    /\ tool = "export" /\ dbpc = "migrate"
    /\ \E ok \in BOOLEAN :
          IF ok
          THEN /\ db' = IF db.schema = "legacy" THEN [db EXCEPT !.schema = "new"] ELSE db
               /\ swallowed' = swallowed
          ELSE /\ db' = db
               /\ swallowed' = TRUE
    /\ DbGoto("seed")
    /\ UNCHANGED <<db0, tableExists, rowsRead, closed, inserted, runs, failedRuns>>
    /\ UNCHANGED <<tool, fsVars, outVars, techVars, videoVars>>

\* if (techCount.count === 0) initialTechnologies.forEach(insertTech.run)
DbSeedTechnologies ==
    /\ tool = "export" /\ dbpc = "seed"
    /\ \E ok \in BOOLEAN :
          IF ok
          THEN /\ db' = IF db.techs = {} THEN [db EXCEPT !.techs = InitialTechnologies] ELSE db
               /\ DbGoto("samples")
          ELSE /\ db' = db
               /\ DbGoto("catch")
    /\ UNCHANGED <<db0, tableExists, rowsRead, swallowed, closed, inserted, runs, failedRuns>>
    /\ UNCHANGED <<tool, fsVars, outVars, techVars, videoVars>>

\* initialProjects.forEach(project => insert.run(project)): each insert
\* commits on its own, so a throw leaves the rows inserted before it.
DbInsertSamples ==
    /\ tool = "export" /\ dbpc = "samples"
    /\ \E k \in 0..Len(InitialProjects) :
          /\ db' = [db EXCEPT !.rows = AddRows(db.rows, k)]
          /\ inserted' = inserted + k
          /\ DbGoto(IF k = Len(InitialProjects) THEN "read" ELSE "catch")
    /\ UNCHANGED <<db0, tableExists, rowsRead, swallowed, closed, runs, failedRuns>>
    /\ UNCHANGED <<tool, fsVars, outVars, techVars, videoVars>>

\* SELECT * FROM projects ORDER BY ...; SELECT * FROM technologies (throws
\* "no such table" without the technologies table).
DbRead ==
    /\ tool = "export" /\ dbpc = "read"
    /\ \E ok \in BOOLEAN :
          IF ok /\ db.hasTech
          THEN /\ rowsRead' \in SelectProjects(db.rows)
               /\ DbGoto("write")
          ELSE /\ rowsRead' = rowsRead
               /\ DbGoto("catch")
    /\ UNCHANGED <<db, db0, tableExists, swallowed, closed, inserted, runs, failedRuns>>
    /\ UNCHANGED <<tool, fsVars, outVars, techVars, videoVars>>

\* mkdirSync(publicDir) if needed; writeFileSync(jsonPath, ...)
DbWrite ==
    /\ tool = "export" /\ dbpc = "write"
    /\ \E ok \in BOOLEAN :
          IF ok
          THEN /\ manifest' = rowsRead /\ written' = TRUE
               /\ DbGoto("close")
          ELSE /\ manifest' = manifest /\ written' = written
               /\ DbGoto("catch")
    /\ UNCHANGED <<db, db0, tableExists, rowsRead, swallowed, closed, inserted, runs,
                   failedRuns, exitCode>>
    /\ UNCHANGED <<tool, fsVars, techVars, videoVars>>

\* db.close()
DbClose ==
    /\ tool = "export" /\ dbpc = "close"
    /\ \E ok \in BOOLEAN :
          /\ closed' = ok
          /\ DbGoto(IF ok THEN "end" ELSE "catch")
    /\ UNCHANGED <<db, db0, tableExists, rowsRead, swallowed, inserted, runs, failedRuns>>
    /\ UNCHANGED <<tool, fsVars, outVars, techVars, videoVars>>

\* exportProjectsToJson returned; the script ends and the process exits 0.
DbExit ==
    /\ tool = "export" /\ dbpc = "end"
    /\ dbpc' = "exited" /\ exitCode' = 0
    /\ runs' = runs + 1
    /\ UNCHANGED <<db, db0, tableExists, rowsRead, swallowed, thrown, closed, inserted,
                   failedRuns, manifest, written>>
    /\ UNCHANGED <<tool, fsVars, techVars, videoVars>>

\* The outer catch: console.error; process.exit(1).
DbCatch ==
    /\ tool = "export" /\ dbpc = "catch"
    /\ dbpc' = "exited" /\ exitCode' = CatchExitCode
    /\ runs' = runs + 1 /\ failedRuns' = failedRuns + 1
    /\ UNCHANGED <<db, db0, tableExists, rowsRead, swallowed, thrown, closed, inserted,
                   manifest, written>>
    /\ UNCHANGED <<tool, fsVars, techVars, videoVars>>

\* The tool is run again on the same store.
DbRunAgain ==
    /\ tool = "export" /\ dbpc = "exited" /\ runs < MaxRuns
    /\ dbpc' = "open" /\ tableExists' = FALSE /\ rowsRead' = <<>>
    /\ swallowed' = FALSE /\ thrown' = FALSE /\ closed' = FALSE /\ inserted' = 0
    /\ written' = FALSE /\ exitCode' = 0
    /\ UNCHANGED <<db, db0, runs, failedRuns, manifest>>
    /\ UNCHANGED <<tool, fsVars, techVars, videoVars>>

\* =========================================================================
\*                     TECHNOLOGY STRING PARSING
\* =========================================================================
MaxLen == 4

\* The characters of a tech string: an upper-case letter, a lower-case
\* letter, a blank and the delimiter.
Chars == {"A", "b", " ", ","}

\* The tech value of a sidecar or of a projects row: a string, or
\* undefined / NULL.
TechStrings ==
    {[type |-> "null", chars |-> <<>>]}
    \cup [type : {"string"}, chars : SeqsUpTo(Chars, MaxLen)]

\* String.prototype.split(','): the pieces between the commas, empty ones kept.
RECURSIVE Split(_)
Split(s) ==
    IF \A i \in 1..Len(s) : s[i] # ","
    THEN <<s>>
    ELSE LET i == CHOOSE k \in 1..Len(s) :
                      s[k] = "," /\ \A m \in 1..(k - 1) : s[m] # ","
         IN <<SubSeq(s, 1, i - 1)>> \o Split(SubSeq(s, i + 1, Len(s)))

\* String.prototype.trim()
RECURSIVE Trim(_)
Trim(s) ==
    IF s = <<>> THEN s
    ELSE IF Head(s) = " " THEN Trim(Tail(s))
    ELSE IF s[Len(s)] = " " THEN Trim(SubSeq(s, 1, Len(s) - 1))
    ELSE s

\* String.prototype.toLowerCase()
ToLowerCase(s) == [i \in 1..Len(s) |-> IF s[i] = "A" THEN "a" ELSE s[i]]

\* .filter(t => t): a string is kept unless it is empty.
NonEmpty(t) == t # <<>>

\* public/icons: the icon files present, as <<lower-cased name, extension>>.
IconFiles == {<< <<"a">>, "svg" >>, << <<"b">>, "png" >>, << <<"a", "b">>, "svg" >>,
              << <<"a", "b">>, "png" >>}

IconPath(name, ext) == <<"/portfolio/icons", ToLowerCase(name), ext>>

NoIcon == <<>>

\* The body of techNames.forEach in processTechString.
FsTechEntry(techName) ==
    [name |-> techName,
     icon |-> IF <<ToLowerCase(techName), "svg">> \in IconFiles THEN IconPath(techName, "svg")
              ELSE IF <<ToLowerCase(techName), "png">> \in IconFiles THEN IconPath(techName, "png")
              ELSE NoIcon]

\* processTechString(techString)
ProcessTechString(t) ==
    IF t.type # "string" \/ t.chars = <<>>
    THEN <<>>
    ELSE LET pieces == Split(t.chars)
             trimmed == [i \in 1..Len(pieces) |-> Trim(pieces[i])]
             techNames == SelectSeq(trimmed, NonEmpty)
         IN [i \in 1..Len(techNames) |-> FsTechEntry(techNames[i])]

\* The technologies table as read by the export tool: name -> icon_path, icon_type.
Technologies ==
    {[name |-> <<"A">>, icon_path |-> IconPath(<<"A">>, "svg"), icon_type |-> "svg"],
     [name |-> <<"b">>, icon_path |-> IconPath(<<"b">>, "png"), icon_type |-> "png"]}

\* The body of techArray.map in exportProjectsToJson.
DbTechEntry(techName) ==
    LET techNameLower == ToLowerCase(Trim(techName))
        found == {r \in Technologies : ToLowerCase(r.name) = techNameLower}
    IN IF found # {}
       THEN LET techData == CHOOSE r \in found : TRUE
            IN [name |-> Trim(techName), icon |-> techData.icon_path,
                iconType |-> techData.icon_type]
       ELSE [name |-> Trim(techName), icon |-> NoIcon, iconType |-> NoIcon]

\* project.tech ? project.tech.split(',') : [], then the map over it.
ExportTech(t) ==
    IF t.type # "string" \/ t.chars = <<>>
    THEN <<>>
    ELSE LET techArray == Split(t.chars)
         IN [i \in 1..Len(techArray) |-> DbTechEntry(techArray[i])]

TechInit ==
    /\ techString \in TechStrings
    /\ techFs = <<>> /\ techDb = <<>> /\ techpc = {}

\* The build tool resolves the tech string of a sidecar.
RunProcessTechString ==
    /\ tool = "tech" /\ "fs" \notin techpc
    /\ techFs' = ProcessTechString(techString)
    /\ techpc' = techpc \cup {"fs"}
    /\ UNCHANGED <<techString, techDb>>
    /\ UNCHANGED <<tool, fsVars, outVars, dbVars, videoVars>>

\* The export tool resolves the tech column of a row.
RunExportTech ==
    /\ tool = "tech" /\ "db" \notin techpc
    /\ techDb' = ExportTech(techString)
    /\ techpc' = techpc \cup {"db"}
    /\ UNCHANGED <<techString, techFs>>
    /\ UNCHANGED <<tool, fsVars, outVars, dbVars, videoVars>>

\* =========================================================================
\*                            VIDEO SCAN
\* =========================================================================
MaxFiles == 3

\* A file name is its name part and its extension, as path.parse splits it.
File(n, e) == [name |-> n, ext |-> e]

\* path.extname(file).toLowerCase() for the extensions of the model.
LowerExt(e) ==
    CASE e = ".MP4" -> ".mp4"
      [] e = ".PNG" -> ".png"
      [] OTHER -> e

\* The file names a project folder of the model may hold.
FileNames ==
    {File(<<"demo">>, ".mp4"), File(<<"demo">>, ".MP4"), File(<<"clip">>, ".mov"),
     File(<<"demo", "-thumb">>, ".jpg"), File(<<"demo", "-thumb">>, ".jpeg"),
     File(<<"demo", "-thumb">>, ".png"), File(<<"demo", "-thumb">>, ".webp"),
     File(<<"demo", "-thumb">>, ".PNG"), File(<<"demo", "-thumb">>, ".gif"),
     File(<<"clip", "-thumb">>, ".webp"), File(<<"notes">>, ".txt")}

\* allowedExtensions of scanProjectVideos
VideoExtensions == {".mp4", ".webm", ".mov", ".avi", ".mkv"}

\* thumbnailExtensions, in probing order
ThumbnailExtensions == <<".jpg", ".jpeg", ".png", ".webp">>

\* `/portfolio/projects/${path.basename(projectPath)}/${file}`
PublicPath(f) == <<"/portfolio/projects", "project-a", f>>

NoThumbnail == <<>>

\* `${baseName}-thumb${thumbExt}`
ThumbFile(baseName, thumbExt) == File(Append(baseName, "-thumb"), thumbExt)

\* fs.existsSync(path.join(projectPath, thumbFile)) on a case-sensitive
\* file system.
ExistsSync(dir, f) == f \in Range(dir)

\* for (const thumbExt of thumbnailExtensions) { if (exists) { ...; break; } }
\* from position k of the list on.
RECURSIVE FindThumbnailWrong(_, _, _)
FindThumbnailWrong(dir, baseName, k) ==
    IF k > Len(ThumbnailExtensions) THEN NoThumbnail
    ELSE LET rest == FindThumbnailWrong(dir, baseName, k + 1)
         IN IF rest # NoThumbnail THEN rest
            ELSE IF ExistsSync(dir, ThumbFile(baseName, ThumbnailExtensions[k]))
            THEN PublicPath(ThumbFile(baseName, ThumbnailExtensions[k]))
            ELSE NoThumbnail

RECURSIVE FindThumbnail(_, _, _)
FindThumbnail(dir, baseName, k) ==
    IF k > Len(ThumbnailExtensions) THEN NoThumbnail
    ELSE IF ExistsSync(dir, ThumbFile(baseName, ThumbnailExtensions[k]))
    THEN PublicPath(ThumbFile(baseName, ThumbnailExtensions[k]))
    ELSE FindThumbnail(dir, baseName, k + 1)

\* files.forEach(file => ...) from position i on.
RECURSIVE ScanFrom(_, _)
ScanFrom(dir, i) ==
    IF i > Len(dir) THEN <<>>
    ELSE IF LowerExt(dir[i].ext) \in VideoExtensions
    THEN <<[path |-> PublicPath(dir[i]),
            thumbnail |-> FindThumbnail(dir, dir[i].name, 1)]>> \o ScanFrom(dir, i + 1)
    ELSE ScanFrom(dir, i + 1)

\* scanProjectVideos(projectPath): [] when the listing throws.
ScanProjectVideos(dir, readable) == IF readable THEN ScanFrom(dir, 1) ELSE <<>>

VideoInit ==
    /\ dirFiles \in {d \in SeqsUpTo(FileNames, MaxFiles) :
                        \A i, j \in 1..Len(d) : d[i] = d[j] => i = j}
    /\ dirReadable \in BOOLEAN
    /\ videos = <<>> /\ vpc = "scan"

RunScanProjectVideos ==
    /\ tool = "video" /\ vpc = "scan"
    /\ videos' = ScanProjectVideos(dirFiles, dirReadable)
    /\ vpc' = "done"
    /\ UNCHANGED <<dirFiles, dirReadable>>
    /\ UNCHANGED <<tool, fsVars, outVars, dbVars, techVars>>

\* =========================================================================
\*                          THE TWO TOOLS
\* =========================================================================
TechIdle ==
    /\ techString = [type |-> "null", chars |-> <<>>]
    /\ techFs = <<>> /\ techDb = <<>> /\ techpc = {}
VideoIdle == dirFiles = <<>> /\ dirReadable = TRUE /\ videos = <<>> /\ vpc = "idle"

Init ==
    /\ tool \in {"build", "export"}
    /\ IF tool = "build" THEN FsInit /\ DbIdle ELSE FsIdle /\ DbInit
    /\ manifest = OldManifest /\ written = FALSE /\ exitCode = 0
    /\ TechIdle /\ VideoIdle

Next ==
    \/ CheckRoot \/ ListRoot \/ ProcessFolder \/ SortAndWrite \/ BuildExit
    \/ DbOpen \/ DbCheckTable \/ DbCreateProjects \/ DbCreateTechnologies
    \/ DbMigrate \/ DbSeedTechnologies \/ DbInsertSamples \/ DbRead \/ DbWrite
    \/ DbClose \/ DbExit \/ DbCatch \/ DbRunAgain

Spec == Init /\ [][Next]_vars

OutIdle == manifest = OldManifest /\ written = FALSE /\ exitCode = 0

InitTech == tool = "tech" /\ TechInit /\ FsIdle /\ DbIdle /\ OutIdle /\ VideoIdle

NextTech == RunProcessTechString \/ RunExportTech

SpecTech == InitTech /\ [][NextTech]_vars

InitVideo == tool = "video" /\ VideoInit /\ FsIdle /\ DbIdle /\ OutIdle /\ TechIdle

NextVideo == RunScanProjectVideos

SpecVideo == InitVideo /\ [][NextVideo]_vars

\* =========================================================================
\*                     PROPERTIES OF THE BUILD TOOL
\* =========================================================================
ValidDate(d) == d # NoDate /\ d[2] \in 1..12

\* String comparison a > b of two "YYYY-MM" texts (fixed width, zero padded).
StrGreater(a, b) == a[1] > b[1] \/ (a[1] = b[1] /\ a[2] > b[2])

Dirs == {i \in 1..Len(folders) : folders[i].kind = "dir"}
WithSidecar == {i \in Dirs : folders[i].sidecar = "ok"}
Titles(recs) == {recs[k].title : k \in 1..Len(recs)}
Ids(recs) == {recs[k].id : k \in 1..Len(recs)}

\* C1: the written manifest is the assembled list stably sorted by end_date:
\* a record with a later end_date comes first, records without end_date come
\* after all dated ones, and records with the same end_date keep ascending id
\* order.  "Later" is read in the claim's favour: only pairs of well-formed
\* dates are constrained by the first clause.
C1_ManifestSortedByEndDate ==
    (tool = "build" /\ written) =>
        \A i, j \in 1..Len(manifest) :
            LET a == manifest[i]
                b == manifest[j]
            IN /\ (ValidDate(a.end_date) /\ ValidDate(b.end_date)
                     /\ StrGreater(a.end_date, b.end_date)) => i < j
               /\ (a.end_date # NoDate /\ b.end_date = NoDate) => i < j
               /\ (a.end_date = b.end_date /\ a.id < b.id) => i < j

\* C2: a directory whose sidecar is missing or malformed is skipped and the
\* run goes on: the manifest holds exactly one record per directory with a
\* well-formed sidecar (N-1 records when one of N directories lacks it), and
\* the skip is no top-level failure.
C2_BadSidecarSkipped ==
    tool = "build" =>
        /\ written =>
              /\ Titles(manifest) = WithSidecar
              /\ Len(manifest) = Cardinality(WithSidecar)
              /\ Cardinality(Dirs \ WithSidecar) = 1 => Len(manifest) = Cardinality(Dirs) - 1
        /\ (pc \in {"done", "exited"} /\ rootKind = "dir"
              /\ \A i \in 1..Len(folders) : folders[i].kind # "gone")
           => fsErr \in {"none", "write"}

\* Three directories, the second without sidecar, two records written.
C2_Witness ==
    /\ tool = "build" /\ written
    /\ Cardinality(Dirs) = 3 /\ Cardinality(Dirs \ WithSidecar) = 1
    /\ folders[2].sidecar = "missing"
    /\ Len(manifest) = 2

\* C3: at every point of the run the ids assembled so far are exactly 1..k,
\* given in enumeration order; an entry that is skipped takes no id; the
\* written manifest carries exactly the ids 1..n.
C3_IdsDense ==
    tool = "build" =>
        /\ Ids(projects) = 1..Len(projects)
        /\ projectId = Len(projects) + 1
        /\ pc \in {"start", "list", "loop"} =>
              \A k, l \in 1..Len(projects) :
                  /\ projects[k].id = k
                  /\ k < l => projects[k].title < projects[l].title
        /\ pc = "loop" =>
              Len(projects) = Cardinality({i \in WithSidecar : i < idx})
        /\ written => Ids(manifest) = 1..Len(manifest)

\* A non-directory entry between two projects takes no id.
C3_Witness ==
    /\ tool = "build" /\ written /\ Len(manifest) = 2
    /\ Len(folders) = 3 /\ folders[2].kind = "file"
    /\ \E k \in 1..2 : manifest[k].title = 3 /\ manifest[k].id = 2

\* C4: when the root is missing or a top-level enumeration step fails, the
\* manifest file stays as it was; it is written only after every entry has
\* been processed without such a failure.
C4_AbortLeavesManifest ==
    tool = "build" =>
        /\ fsErr \in {"noroot", "readdir", "stat"} => ~written /\ manifest = OldManifest
        /\ written =>
              /\ idx > Len(folders)
              /\ rootKind = "dir"
              /\ \A i \in 1..Len(folders) : folders[i].kind # "gone"

\* The statSync call threw at the third entry after two records were assembled.
C4_Witness ==
    /\ tool = "build" /\ pc = "exited" /\ fsErr = "stat"
    /\ Len(projects) = 2 /\ idx = 3
    /\ manifest = OldManifest

\* =========================================================================
\*                     PROPERTIES OF THE EXPORT TOOL
\* =========================================================================

\* C7 (as claimed): in the written manifest every record without end_date
\* comes after every record with one.
C7_UndatedLast ==
    (tool = "export" /\ written) =>
        \A i, j \in 1..Len(manifest) :
            (manifest[i].end_date = SqlNull /\ manifest[j].end_date # SqlNull) => j < i

\* The date a row is ordered by: its end_date, or created_at for NULL.
EffectiveDate(r) == IF r.end_date = SqlNull THEN r.created_at ELSE r.end_date

\* C7 (amended): the written manifest is in descending order of the record's
\* effective date, which is its end_date, or its created_at when end_date is
\* NULL; records with equal effective date are in descending created_at order.
C7_OrderedByEffectiveDate ==
    (tool = "export" /\ written) =>
        \A i, j \in 1..Len(manifest) :
            i < j =>
                /\ ~TextLess(EffectiveDate(manifest[i]), EffectiveDate(manifest[j]))
                /\ EffectiveDate(manifest[i]) = EffectiveDate(manifest[j])
                      => ~TextLess(manifest[i].created_at, manifest[j].created_at)

\* An undated record written ahead of a dated one.
C7_Witness ==
    /\ tool = "export" /\ written /\ Len(manifest) = 2
    /\ manifest[1].end_date = SqlNull /\ manifest[2].end_date # SqlNull

\* C8 (as claimed): the build tool always exits 0; the export tool exits
\* nonzero whenever an exception was raised at any step, and exits 0 only
\* with the manifest written and the connection closed.
C8_ExitStatus ==
    /\ (tool = "build" /\ pc = "exited") => exitCode = 0
    /\ (tool = "export" /\ dbpc = "exited") =>
          /\ (thrown \/ swallowed) => exitCode # 0
          /\ exitCode = 0 => written /\ closed

\* C8 (amended): the build tool always exits 0; the export tool exits nonzero
\* exactly when an exception reaches the outer handler of exportProjectsToJson
\* (an exception of the schema check is caught inside the bootstrap block and
\* does not change the exit status), and exits 0 only with the manifest
\* written and the connection closed.
C8_ExitStatusOuter ==
    /\ (tool = "build" /\ pc = "exited") => exitCode = 0
    /\ (tool = "export" /\ dbpc = "exited") =>
          /\ thrown <=> exitCode # 0
          /\ exitCode = 0 => written /\ closed

\* The schema check threw, was swallowed, and the run exited 0.
C8_Witness ==
    /\ tool = "export" /\ dbpc = "exited"
    /\ swallowed /\ ~thrown /\ exitCode = 0 /\ written /\ closed

\* C9: bootstrap happens at most once: a run that finds the projects table
\* inserts nothing, and after any number of successful runs on a store that
\* had no projects table the projects table holds the three sample rows, the
\* technologies table the fixed list (or what it held, if it was not empty),
\* and the manifest three records.
C9_BootstrapOnce ==
    tool = "export" =>
        /\ tableExists => inserted = 0
        /\ (~db0.hasProjects /\ failedRuns = 0 /\ runs >= 1) =>
              /\ db.hasProjects /\ db.hasTech
              /\ Len(db.rows) = 3
              /\ Ids(db.rows) = 1..3
              /\ db.techs = IF db0.techs = {} THEN InitialTechnologies ELSE db0.techs
              /\ Len(manifest) = 3

\* Two successful runs from the empty store.
C9_Witness ==
    /\ tool = "export" /\ db0 = EmptyStore
    /\ runs = 2 /\ failedRuns = 0 /\ dbpc = "exited" /\ tableExists
    /\ Len(db.rows) = 3 /\ Len(manifest) = 3

\* C10: a run on a store whose projects table has the legacy schema has
\* migrated it to the nullable schema, keeping every row, by the time the
\* projects are read.
C10_LegacyMigrated ==
    (tool = "export" /\ db0.hasProjects /\ db0.schema = "legacy"
        /\ dbpc \in {"write", "close", "end"})
    => db.schema = "new" /\ db.rows = db0.rows

\* =========================================================================
\*                  PROPERTIES OF THE TECH PARSERS
\* =========================================================================
Names(list) == [i \in 1..Len(list) |-> list[i].name]

\* The segments of s: the stretches between consecutive commas (or the ends),
\* each as <<position before its first character, position after its last>>.
Delims(s) == {0, Len(s) + 1} \cup {i \in 1..Len(s) : s[i] = ","}

Segments(s) ==
    {p \in Delims(s) \X Delims(s) :
        p[1] < p[2] /\ \A d \in Delims(s) : ~(p[1] < d /\ d < p[2])}

Inked(s, p) == {i \in (p[1] + 1)..(p[2] - 1) : s[i] # " "}

Least(S) == CHOOSE x \in S : \A y \in S : x <= y
Greatest(S) == CHOOSE x \in S : \A y \in S : y <= x

\* The non-empty trimmed segments of s, in order.
TrimmedSegments(s) ==
    LET keep == {p \in Segments(s) : Inked(s, p) # {}}
        nth(k) == CHOOSE p \in keep : Cardinality({q \in keep : q[1] < p[1]}) = k - 1
    IN [k \in 1..Cardinality(keep) |->
           SubSeq(s, Least(Inked(s, nth(k))), Greatest(Inked(s, nth(k))))]

\* C5: in both pipelines the names of the tech list are the non-empty trimmed
\* segments of the comma-delimited tech string, in order.
C5_TechNamesAreTrimmedSegments ==
    tool = "tech" =>
        /\ "fs" \in techpc => Names(techFs) = TrimmedSegments(techString.chars)
        /\ "db" \in techpc => Names(techDb) = TrimmedSegments(techString.chars)

\* =========================================================================
\*                  PROPERTIES OF THE VIDEO SCAN
\* =========================================================================

\* C6: the thumbnail of every video found is the public path of the sibling
\* "<base>-thumb<ext>" for the first ext of .jpg, .jpeg, .png, .webp that is
\* present in the folder, and null when none is.
C6_FirstThumbnailWins ==
    (tool = "video" /\ vpc = "done") =>
        \A k \in 1..Len(videos) :
            \E f \in Range(dirFiles) :
                /\ videos[k].path = PublicPath(f)
                /\ LET sibling(e) == [name |-> f.name \o <<"-thumb">>, ext |-> e]
                       present == {n \in 1..4 : sibling(ThumbnailExtensions[n]) \in Range(dirFiles)}
                   IN /\ ThumbnailExtensions = <<".jpg", ".jpeg", ".png", ".webp">>
                      /\ IF present = {}
                         THEN videos[k].thumbnail = NoThumbnail
                         ELSE videos[k].thumbnail =
                                  PublicPath(sibling(ThumbnailExtensions[Least(present)]))

\* Demo.mp4 with demo-thumb.png as its only sibling.
C6_Witness ==
    /\ tool = "video" /\ vpc = "done"
    /\ dirFiles = <<File(<<"demo", "-thumb">>, ".png"), File(<<"demo">>, ".mp4")>>
    /\ Len(videos) = 1
    /\ videos[1].thumbnail = PublicPath(File(<<"demo", "-thumb">>, ".png"))

=============================================================================
